---- MODULE Spec2Model ----
(***************************************************************************)
(* A model of losses.py: the SimCLR contrastive loss (SIMCLRLoss), the     *)
(* combined multi-objective loss (ACLIPLoss), cal_simsiam_loss and         *)
(* get_metric_names.                                                       *)
(*                                                                         *)
(* Tensors: a 1-D tensor is a sequence of integers, a 2-D tensor a         *)
(* sequence of rows.  Embedding entries are integers and every input row   *)
(* is axis-aligned, so that its L2 norm is an integer and F.normalize is   *)
(* computed exactly.  Arithmetic is exact: float32 rounding is not         *)
(* modelled.  The values of cross_entropy and of the BYOL distance, which  *)
(* need exp/log and are read by no branch of the code, are kept as terms   *)
(* (records naming the operation and its operands).                        *)
(* Python's None is the empty sequence, a value x that may be None is <<x>>.*)
(***************************************************************************)
EXTENDS Integers, Sequences, FiniteSets, TLC

\* ------------------------------------------------------------------ bounds
\* Largest local batch size handed to forward.
MaxN == 2
\* Largest number of cooperating workers.
MaxWorld == 2
\* Number of forward calls each worker makes in the lock-step specification.
MaxCalls == 2

\* --------------------------------------------------------- program constants
\* temperature=0.1 (SIMCLRLoss.__init__, ACLIPLoss.__init__): x / tau = x * 10
TauInv == 10
\* the 1e9 of the self-similarity mask
MaskValue == 1000000000

None == << >>
Some(x) == << x >>

\* ------------------------------------------------------------ tensor helpers
RECURSIVE SumSeq(_)
SumSeq(s) == IF Len(s) = 0 THEN 0 ELSE Head(s) + SumSeq(Tail(s))

RECURSIVE Flatten(_)
\* torch.cat(list, dim=0)
Flatten(ss) == IF Len(ss) = 0 THEN << >> ELSE Head(ss) \o Flatten(Tail(ss))

Rows(m) == Len(m)
\* Column count; every 2-D tensor that reaches an operation reading
\* it has at least one row.
Cols(m) == IF Len(m) = 0 THEN 0 ELSE Len(m[1])

Dot(u, v) == SumSeq([k \in 1..Len(u) |-> u[k] * v[k]])

ISqrt(n) == CHOOSE k \in 0..n : k * k <= n /\ (k + 1) * (k + 1) > n

\* F.normalize(x, dim=-1, p=2): x / max(||x||_2, eps), eps = 1e-12.  An integer
\* row has norm 0 (the row is 0 and stays 0) or norm >= 1 > eps.
NormalizeRow(v) ==
    LET n == ISqrt(Dot(v, v))
    IN  [k \in 1..Len(v) |-> IF n = 0 THEN 0 ELSE v[k] \div n]

Normalize(x) == [i \in 1..Len(x) |-> NormalizeRow(x[i])]

\* torch.matmul(a, b.transpose(0, 1))
MatMulT(a, b) == [i \in 1..Len(a) |-> [j \in 1..Len(b) |-> Dot(a[i], b[j])]]

\* scalar * tensor, tensor / tau
Scale(c, m) == [i \in 1..Len(m) |-> [j \in 1..Len(m[i]) |-> c * m[i][j]]]

\* Broadcasting of one dimension: the result size, or -1 when incompatible.
BDim(a, b) == IF a = b THEN a ELSE IF a = 1 THEN b ELSE IF b = 1 THEN a ELSE -1

BroadcastOk(a, b) == BDim(Rows(a), Rows(b)) >= 0 /\ BDim(Cols(a), Cols(b)) >= 0

\* A faulty subtraction: the second operand is dropped
Sub_Dropped(a, b) == a

\* a - b with broadcasting (BroadcastOk(a, b) assumed)
Sub(a, b) ==
    [i \in 1..BDim(Rows(a), Rows(b)) |->
        [j \in 1..BDim(Cols(a), Cols(b)) |->
            a[IF Rows(a) = 1 THEN 1 ELSE i][IF Cols(a) = 1 THEN 1 ELSE j]
          - b[IF Rows(b) = 1 THEN 1 ELSE i][IF Cols(b) = 1 THEN 1 ELSE j]]]

\* torch.cat([a, b], dim=1); defined when the row counts agree
CatColsOk(a, b) == Rows(a) = Rows(b)
CatCols(a, b) == [i \in 1..Len(a) |-> a[i] \o b[i]]

\* A faulty x[n:]: the first n rows instead of the rows after them
SliceFrom_First(x, n) == SubSeq(x, 1, IF n < Len(x) THEN n ELSE Len(x))

\* x[:n] and x[n:]
SliceTo(x, n) == SubSeq(x, 1, IF n < Len(x) THEN n ELSE Len(x))
SliceFrom(x, n) == SubSeq(x, (IF n < Len(x) THEN n ELSE Len(x)) + 1, Len(x))

\* torch.argmax(row): the (0-based) index of the first maximal value
ArgmaxRow(r) ==
    CHOOSE j \in 0..(Len(r) - 1) :
        /\ \A k \in 0..(Len(r) - 1) : r[k + 1] <= r[j + 1]
        /\ \A k \in 0..(j - 1) : r[k + 1] < r[j + 1]

Argmax(m) == [i \in 1..Len(m) |-> ArgmaxRow(m[i])]

\* F.cross_entropy(input, target) is defined when the batch sizes agree and
\* every target is a class index of input.
CrossEntropyOk(input, target) ==
    /\ Rows(input) = Len(target)
    /\ \A i \in 1..Len(target) : target[i] >= 0 /\ target[i] < Cols(input)

cross_entropy(input, target) ==
    [op |-> "cross_entropy", input |-> input, target |-> target]

\* pred.eq(labels).sum(): defined when the lengths broadcast
EqSumOk(pred, labels) == BDim(Len(pred), Len(labels)) >= 0
EqSum(pred, labels) ==
    Cardinality({i \in 1..BDim(Len(pred), Len(labels)) :
        pred[IF Len(pred) = 1 THEN 1 ELSE i]
          = labels[IF Len(labels) = 1 THEN 1 ELSE i]})

\* 100 * correct / local_batch_size, a float: kept as a fraction num/den
Percent(correct, n) == [num |-> 100 * correct, den |-> n]

\* ------------------------------------------------- labels, one_hot, gather
\* Faulty labels: the rank offset is left out
MakeLabels_NoRank(local_batch_size, rank) ==
    [i \in 1..local_batch_size |-> i - 1]

\* local_batch_size * utils.get_rank() + torch.arange(local_batch_size)
MakeLabels(local_batch_size, rank) ==
    [i \in 1..local_batch_size |-> local_batch_size * rank + (i - 1)]

\* A faulty one_hot: an identity matrix, whatever the labels
one_hot_Eye(labels, num_classes) ==
    [i \in 1..Len(labels) |->
        [j \in 1..num_classes |-> IF i = j THEN 1 ELSE 0]]

\* F.one_hot(labels, num_classes) raises for an empty tensor with
\* num_classes <= 0 and for a class value outside 0..num_classes-1.
OneHotOk(labels, num_classes) ==
    /\ Len(labels) = 0 => num_classes > 0
    /\ \A i \in 1..Len(labels) : labels[i] >= 0 /\ labels[i] < num_classes

one_hot(labels, num_classes) ==
    [i \in 1..Len(labels) |->
        [j \in 1..num_classes |-> IF labels[i] = j - 1 THEN 1 ELSE 0]]

\* utils.all_gather_batch_with_grad(tensors): for each tensor, every worker's
\* tensor concatenated in rank order.  peers[w + 1] is the list worker w passes
\* to the same collective; the caller's own entry is its argument.
all_gather_batch_with_grad(tensors, rank, world, peers) ==
    [t \in 1..Len(tensors) |->
        Flatten([w \in 1..world |->
            IF w - 1 = rank THEN tensors[t] ELSE peers[w][t]])]

\* ------------------------------------------------------------- SIMCLRLoss
\* SIMCLRLoss.__init__: the instance after construction
SIMCLRLoss_init ==
    [labels |-> None, masks |-> None, last_local_batch_size |-> None]

\* A faulty cache step: labels and masks are recomputed on every call
SIMCLRLoss_cache_Always(self, local_batch_size, rank_, world_) ==
    LET total_batch_size == local_batch_size * world_
        labels == [i \in 1..local_batch_size |->
                      local_batch_size * rank_ + (i - 1)]
    IN  IF local_batch_size = 0
        THEN [self |-> [self EXCEPT !.labels = Some(labels)],
              raised |-> TRUE, wrote |-> TRUE]
        ELSE [self |->
                 [labels |-> Some(labels),
                  masks |-> Some([i \in 1..local_batch_size |->
                               [j \in 1..total_batch_size |->
                                   IF labels[i] = j - 1 THEN 1000000000 ELSE 0]]),
                  last_local_batch_size |-> Some(local_batch_size)],
              raised |-> FALSE, wrote |-> TRUE]

\* SIMCLRLoss.forward, the cache step: recompute labels and masks when the
\* local batch size differs from the cached one.  The three assignments
\* happen in order; F.one_hot may raise between the first and the second.
SIMCLRLoss_cache(self, local_batch_size, rank_, world_) ==
    IF Some(local_batch_size) = self.last_local_batch_size
    THEN [self |-> self, raised |-> FALSE, wrote |-> FALSE]
    ELSE LET labels == MakeLabels(local_batch_size, rank_)
             total_batch_size == local_batch_size * world_
             s1 == [self EXCEPT !.labels = Some(labels)]
         IN  IF ~OneHotOk(labels, total_batch_size)
             THEN [self |-> s1, raised |-> TRUE, wrote |-> TRUE]
             ELSE [self |->
                      [s1 EXCEPT
                         !.masks = Some(Scale(MaskValue,
                                              one_hot(labels, total_batch_size))),
                         !.last_local_batch_size = Some(local_batch_size)],
                   raised |-> FALSE, wrote |-> TRUE]

Raised(line) == [status |-> "raise", at |-> line, ret |-> None, locals |-> None]
Returned(ret, locals) ==
    [status |-> "return", at |-> 0, ret |-> Some(ret), locals |-> Some(locals)]

\* SIMCLRLoss.forward after the cache step: logits, masking, losses, accuracy
SIMCLRLoss_losses(self, q_a, q_b, k_a, k_b) ==
    LET labels == self.labels[1]
        masks == self.masks[1]
        aa == Scale(TauInv, MatMulT(q_a, k_a))
        logits_aa == Sub(aa, masks)
        bb == Scale(TauInv, MatMulT(q_b, k_b))
        logits_bb == Sub(bb, masks)
        logits_ab == Scale(TauInv, MatMulT(q_a, k_b))
        logits_ba == Scale(TauInv, MatMulT(q_b, k_a))
        cat_a == CatCols(logits_ab, logits_aa)
        cat_b == CatCols(logits_ba, logits_bb)
        loss_a == cross_entropy(cat_a, labels)
        loss_b == cross_entropy(cat_b, labels)
        loss == [op |-> "div2", a |-> loss_a, b |-> loss_b]
        pred == Argmax(cat_a)
        correct == EqSum(pred, labels)
        acc == Percent(correct, Len(q_a))
    IN  IF ~BroadcastOk(aa, masks) THEN Raised(161)
        ELSE IF ~BroadcastOk(bb, masks) THEN Raised(163)
        ELSE IF ~CatColsOk(logits_ab, logits_aa) \/ ~CrossEntropyOk(cat_a, labels)
        THEN Raised(167)
        ELSE IF ~CatColsOk(logits_ba, logits_bb) \/ ~CrossEntropyOk(cat_b, labels)
        THEN Raised(168)
        ELSE Returned([loss |-> loss, ssl_loss |-> loss, ssl_acc |-> acc],
                      [aa |-> aa, bb |-> bb,
                       logits_aa |-> logits_aa, logits_bb |-> logits_bb,
                       logits_ab |-> logits_ab, logits_ba |-> logits_ba,
                       pred |-> pred])

\* Faulty gathers: the gather is issued only when the cache misses
SIMCLRLoss_gathers_OnMiss(self, local_batch_size) ==
    IF Some(local_batch_size) = self.last_local_batch_size
    THEN << >> ELSE << 2 >>

\* The gathers SIMCLRLoss.forward issues (tensors per call): one, of
\* [q_a, q_b], before the cache step and whatever the cache holds
SIMCLRLoss_gathers(self, local_batch_size) == << 2 >>

\* SIMCLRLoss.forward.  gatherOk: whether the collective succeeds (it is an
\* external call and may raise).  The result carries the instance after the
\* call, the outcome, and what the call did: the gathers it issued (tensors
\* per call), whether it wrote the cache, the labels and masks it read.
SIMCLRLoss_forward(self, outputs, rank_, world_, peers, gatherOk) ==
    LET q_a == Normalize(outputs.aug1_embed)
        q_b == Normalize(outputs.aug2_embed)
        local_batch_size == Len(q_a)
        k == all_gather_batch_with_grad(<< q_a, q_b >>, rank_, world_, peers)
        c == SIMCLRLoss_cache(self, local_batch_size, rank_, world_)
        r == SIMCLRLoss_losses(c.self, q_a, q_b, k[1], k[2])
        gathers == SIMCLRLoss_gathers(self, local_batch_size)
        did == [local_batch_size |-> local_batch_size, q_a |-> q_a, q_b |-> q_b]
    IN  IF ~gatherOk
        THEN [self |-> self, out |-> Raised(150), wrote |-> FALSE,
              labels |-> None, masks |-> None, gathered |-> None,
              gathers |-> gathers, did |-> did]
        ELSE IF c.raised
        THEN [self |-> c.self, out |-> Raised(157), wrote |-> c.wrote,
              labels |-> c.self.labels, masks |-> None, gathered |-> Some(k),
              gathers |-> gathers, did |-> did]
        ELSE [self |-> c.self, out |-> r, wrote |-> c.wrote,
              labels |-> c.self.labels, masks |-> c.self.masks,
              gathered |-> Some(k), gathers |-> gathers, did |-> did]

\* --------------------------------------------------------------- ACLIPLoss
\* ACLIPLoss.__init__: the instance owns a SIMCLRLoss
ACLIPLoss_init ==
    [labels |-> None, last_local_batch_size |-> None,
     simclr_loss |-> SIMCLRLoss_init]

\* ACLIPLoss.forward, the cache step
ACLIPLoss_cache(self, local_batch_size, rank_) ==
    IF Some(local_batch_size) = self.last_local_batch_size
    THEN [self |-> self, wrote |-> FALSE]
    ELSE [self |-> [self EXCEPT
                      !.labels = Some(MakeLabels(local_batch_size, rank_)),
                      !.last_local_batch_size = Some(local_batch_size)],
          wrote |-> TRUE]

\* loss_fn(x, y).mean() of ACLIPLoss.forward: x * y must broadcast
ByolOk(x, y) == BroadcastOk(x, y)
ByolLoss(x, y) == [op |-> "byol_mean", x |-> Normalize(x), y |-> Normalize(y)]

\* (F.cross_entropy(logits_per_image, labels)
\*  + F.cross_entropy(logits_per_text, labels)) / 2
ContraLoss(logits_per_image, logits_per_text, labels) ==
    [op |-> "div2", a |-> cross_entropy(logits_per_image, labels),
                    b |-> cross_entropy(logits_per_text, labels)]

\* ACLIPLoss.forward after the gather: the two cross-modal losses, the total,
\* the accuracy.  logits_per_image and logits_per_text are assigned twice; the
\* suffix names the line of the assignment.
ACLIPLoss_losses(self, logit_scale, image_embed_1, image_embed_2, text_embed, image_embed_all_1, image_embed_all_2, text_embed_all, ssl_loss, im_byol_loss) ==
    LET labels == self.labels[1]
        local_batch_size == Len(text_embed)
        logits_per_image_83 ==
            MatMulT(Scale(logit_scale, image_embed_1), text_embed_all)
        logits_per_text_84 ==
            MatMulT(Scale(logit_scale, text_embed), image_embed_all_1)
        contra_loss_1 == ContraLoss(logits_per_image_83, logits_per_text_84, labels)
        logits_per_image_91 ==
            MatMulT(Scale(logit_scale, image_embed_2), text_embed_all)
        logits_per_text_92 ==
            MatMulT(Scale(logit_scale, text_embed), image_embed_all_2)
        contra_loss_2 == ContraLoss(logits_per_image_91, logits_per_text_92, labels)
        loss == [op |-> "sum",
                 terms |-> << [w2 |-> 1, v |-> contra_loss_1],
                              [w2 |-> 1, v |-> contra_loss_2],
                              [w2 |-> 2, v |-> ssl_loss],
                              [w2 |-> 4, v |-> im_byol_loss] >>]
        logits_per_image == logits_per_image_91
        pred == Argmax(logits_per_image)
        correct == EqSum(pred, labels)
        acc == Percent(correct, local_batch_size)
    IN  IF ~CrossEntropyOk(logits_per_image_83, labels) THEN Raised(87)
        ELSE IF ~CrossEntropyOk(logits_per_text_84, labels) THEN Raised(88)
        ELSE IF ~CrossEntropyOk(logits_per_image_91, labels) THEN Raised(95)
        ELSE IF ~CrossEntropyOk(logits_per_text_92, labels) THEN Raised(96)
        ELSE Returned([loss |-> loss,
                       simclr_loss |-> ssl_loss,
                       im_byol_loss |-> im_byol_loss,
                       contra_loss_1 |-> contra_loss_1,
                       contra_loss_2 |-> contra_loss_2,
                       clip_acc |-> acc],
                      [logits_per_image_83 |-> logits_per_image_83,
                       logits_per_image_91 |-> logits_per_image_91,
                       pred |-> pred])

\* ACLIPLoss.forward.  failAt: which of the call's gathers raises (0: none).
\* peers.simclr, peers.clip: what the other workers pass to the two gathers.
ACLIPLoss_forward(self, outputs, rank_, world_, peers, failAt) ==
    LET text_embed_in == outputs.text_embed
        bs == Len(text_embed_in)
        inputs == [aug1_embed |-> SliceTo(outputs.image_ssl_embed, bs),
                   aug2_embed |-> SliceFrom(outputs.image_ssl_embed, bs)]
        inner == SIMCLRLoss_forward(self.simclr_loss, inputs, rank_, world_,
                                    peers.simclr, failAt # 1)
        self1 == [self EXCEPT !.simclr_loss = inner.self]
        im_features == outputs.byol_feats
        im_features_e == outputs.byol_feats_e \o outputs.byol_feats_e
        im_byol_loss == ByolLoss(im_features, im_features_e)
        local_batch_size == Len(text_embed_in)
        c == ACLIPLoss_cache(self1, local_batch_size, rank_)
        image_embed == Normalize(outputs.image_embed)
        text_embed == Normalize(text_embed_in)
        image_embed_1 == SliceTo(image_embed, local_batch_size)
        image_embed_2 == SliceFrom(image_embed, local_batch_size)
        g == all_gather_batch_with_grad(
                 << image_embed_1, image_embed_2, text_embed >>,
                 rank_, world_, peers.clip)
        r == ACLIPLoss_losses(c.self, outputs.logit_scale,
                              image_embed_1, image_embed_2, text_embed,
                              g[1], g[2], g[3],
                              inner.out.ret[1].ssl_loss, im_byol_loss)
        did == [local_batch_size |-> local_batch_size,
                image_embed_1 |-> image_embed_1,
                image_embed_2 |-> image_embed_2,
                text_embed |-> text_embed]
    IN  IF inner.out.status = "raise"
        THEN [self |-> self1, out |-> Raised(inner.out.at), wrote |-> FALSE,
              labels |-> None, gathered |-> None, gathers |-> inner.gathers,
              inner |-> inner, did |-> did]
        ELSE IF ~ByolOk(im_features, im_features_e)
        THEN [self |-> self1, out |-> Raised(60), wrote |-> FALSE,
              labels |-> None, gathered |-> None, gathers |-> inner.gathers,
              inner |-> inner, did |-> did]
        ELSE IF failAt = 2
        THEN [self |-> c.self, out |-> Raised(80), wrote |-> c.wrote,
              labels |-> None, gathered |-> None,
              gathers |-> inner.gathers \o << 3 >>,
              inner |-> inner, did |-> did]
        ELSE [self |-> c.self, out |-> r, wrote |-> c.wrote,
              labels |-> c.self.labels, gathered |-> Some(g),
              gathers |-> inner.gathers \o << 3 >>,
              inner |-> inner, did |-> did]

\* ------------------------------------------- get_metric_names, cal_simsiam_loss
\* A faulty name list: the inner loss under the inner engine's key
get_metric_names_Inner ==
    << "loss", "ssl_loss", "im_byol_loss", "contra_loss_1", "contra_loss_2",
       "clip_acc" >>

get_metric_names ==
    << "loss" >> \o << "simclr_loss", "im_byol_loss", "contra_loss_1",
                       "contra_loss_2", "clip_acc" >>

\* The mean over the rows of a 1-D tensor, negated: a fraction
NegMean(xs) == [num |-> 0 - SumSeq(xs), den |-> Len(xs)]

\* F.cosine_similarity(p, z, dim=-1): p.z / max(||p|| * ||z||, eps) per row
cosine_similarity(p, z) ==
    [i \in 1..Len(p) |->
        LET d == ISqrt(Dot(p[i], p[i])) * ISqrt(Dot(z[i], z[i]))
        IN  IF d = 0 THEN 0 ELSE Dot(p[i], z[i]) \div d]

\* A faulty dispatch: every version but "original" is taken as "simplified"
cal_simsiam_loss_Fallback(p, z, version) ==
    IF version = "original"
    THEN [status |-> "return",
          value |-> Some(NegMean([i \in 1..Len(p) |->
                            Dot(NormalizeRow(p[i]), NormalizeRow(z[i]))]))]
    ELSE [status |-> "return", value |-> Some(NegMean(cosine_similarity(p, z)))]

\* cal_simsiam_loss(p, z, version); z.detach() changes no value
cal_simsiam_loss(p, z, version) ==
    IF version = "original"
    THEN LET pn == Normalize(p)
             zn == Normalize(z)
         IN  [status |-> "return",
              value |-> Some(NegMean([i \in 1..Len(pn) |-> Dot(pn[i], zn[i])]))]
    ELSE IF version = "simplified"
    THEN [status |-> "return", value |-> Some(NegMean(cosine_similarity(p, z)))]
    ELSE [status |-> "raise", value |-> None]

\* the default of cal_simsiam_loss's version parameter
DefaultVersion == "simplified"

\* ------------------------------------------------------------------ inputs
\* The embedding rows the inputs are built from (axis-aligned, of norm 1, 2,
\* 0 and 3).
Pool == << << 1, 0 >>, << 0, 2 >>, << 0, 0 >>, << -3, 0 >> >>

\* A batch of n rows: rows s, s+k, s+2k, ... of Pool (cyclically); a pattern
\* is the pair << s, k >>.
Batch(n, pat) ==
    [i \in 1..n |-> Pool[((pat[1] + pat[2] * (i - 1)) % Len(Pool)) + 1]]

Patterns == (0..(Len(Pool) - 1)) \X {0, 1}

\* The pattern of the worker of rank w - 1, given the caller's
Shift(pat, w) == << pat[1] + 2 * w, pat[2] >>

\* logit_scale is the exponential of a parameter: positive
LogitScales == {1, 3}

\* The record handed to SIMCLRLoss.forward, two views of n samples; extra > 0
\* makes aug2 longer than aug1 (a shape mismatch).
SimclrOutputs(n, extra, d) ==
    [aug1_embed |-> Batch(n, d.a), aug2_embed |-> Batch(n + extra, d.b)]

\* What the other workers pass to the same gather: the same batch structure,
\* their own rows.
SimclrPeers(n, extra, d, world_) ==
    [w \in 1..world_ |->
        << Normalize(Batch(n, Shift(d.a, w))),
           Normalize(Batch(n + extra, Shift(d.b, w))) >>]

\* The record handed to ACLIPLoss.forward for n samples.  shape names the
\* tensor that has one row too many ("ok": none).
AclipOutputs(n, shape, d) ==
    [image_embed |->
        Batch(n, d.a) \o Batch(n + (IF shape = "image_long" THEN 1 ELSE 0), d.b),
     text_embed |-> Batch(n, d.t),
     logit_scale |-> d.scale,
     image_ssl_embed |->
        Batch(n, d.a) \o Batch(n + (IF shape = "ssl_long" THEN 1 ELSE 0), d.b),
     byol_feats |->
        Batch(n, d.a) \o Batch(n + (IF shape = "byol_long" THEN 1 ELSE 0), d.b),
     byol_feats_e |-> Batch(n, d.a)]

AclipPeers(n, shape, d, world_) ==
    [simclr |->
        SimclrPeers(n, IF shape = "ssl_long" THEN 1 ELSE 0, d, world_),
     clip |->
        [w \in 1..world_ |->
            << Normalize(Batch(n, Shift(d.a, w))),
               Normalize(Batch(n + (IF shape = "image_long" THEN 1 ELSE 0),
                               Shift(d.b, w))),
               Normalize(Batch(n, Shift(d.t, w))) >>]]

\* The data of the cache specifications: one pattern for every tensor
SpecData == [a |-> << 0, 1 >>, b |-> << 0, 1 >>, t |-> << 0, 1 >>, scale |-> 1]

SimclrFaults == {"none", "gather", "aug2_long"}
AclipFaults == {"none", "gather1", "gather2", "ssl_long", "image_long", "byol_long"}

\* ------------------------------------------------------------------- state
\* rank, world: utils.get_rank(), utils.get_world_size(), fixed for the run
\* engine:      the class of the instance the run drives
\* self:        the instance (its cache)
\* call:        the last forward call: its inputs, its outcome, what it did
\* inp:         the arguments of the one call of the function specification
\* sched, workers: the lock-step specification's schedule and worker processes
VARIABLES rank, world, engine, self, call, inp, sched, workers

vars == << rank, world, engine, self, call, inp, sched, workers >>

NoCall == [fn |-> "none"]

NewInstance(cls) ==
    IF cls = "SIMCLRLoss" THEN SIMCLRLoss_init ELSE ACLIPLoss_init

Init ==
    /\ world \in 1..MaxWorld
    /\ rank \in 0..(world - 1)
    /\ engine \in {"SIMCLRLoss", "ACLIPLoss"}
    /\ self = NewInstance(engine)
    /\ call = NoCall
    /\ inp = None
    /\ sched = None
    /\ workers = None

\* The batch size of the call before the one being made (None: there is none)
PrevSize == IF call.fn = "none" THEN None ELSE Some(call.n)

\* loss = criterion(outputs) on a SIMCLRLoss instance, for a batch size of
\* Sizes.  fault: the gather raises, or aug2 has one row too many.
SimclrCall(Sizes) ==
    /\ engine = "SIMCLRLoss"
    /\ \E n \in Sizes, fault \in SimclrFaults :
         LET extra == IF fault = "aug2_long" THEN 1 ELSE 0
             outputs == SimclrOutputs(n, extra, SpecData)
             res == SIMCLRLoss_forward(self, outputs, rank, world,
                                       SimclrPeers(n, extra, SpecData, world),
                                       fault # "gather")
         IN  /\ self' = res.self
             /\ call' = [fn |-> "SIMCLRLoss", outputs |-> outputs, n |-> n,
                         prev |-> PrevSize, before |-> self, res |-> res]
    /\ UNCHANGED << rank, world, engine, inp, sched, workers >>

\* loss = criterion(outputs) on an ACLIPLoss instance.  fault: one of the two
\* gathers raises, or one input tensor has one row too many.
AclipCall(Sizes) ==
    /\ engine = "ACLIPLoss"
    /\ \E n \in Sizes, fault \in AclipFaults :
         LET outputs == AclipOutputs(n, fault, SpecData)
             failAt == IF fault = "gather1" THEN 1
                       ELSE IF fault = "gather2" THEN 2 ELSE 0
             res == ACLIPLoss_forward(self, outputs, rank, world,
                                      AclipPeers(n, fault, SpecData, world),
                                      failAt)
         IN  /\ self' = res.self
             /\ call' = [fn |-> "ACLIPLoss", outputs |-> outputs, n |-> n,
                         prev |-> PrevSize, before |-> self, res |-> res]
    /\ UNCHANGED << rank, world, engine, inp, sched, workers >>

\* Every batch size, the degenerate 0 included
Next == SimclrCall(0..MaxN) \/ AclipCall(0..MaxN)

Spec == Init /\ [][Next]_vars

\* Batch sizes of at least 1 only
NextPos == SimclrCall(1..MaxN) \/ AclipCall(1..MaxN)

SpecPos == Init /\ [][NextPos]_vars

\* ------------------------------------------------- function specification
\* One call of SIMCLRLoss.forward, of ACLIPLoss.forward (on a new instance)
\* or of cal_simsiam_loss, on arguments drawn from every pattern.
Versions == {"original", "simplified", "bogus", ""}

\* version = None: the call passes no version
FnInputs(fn) ==
    IF fn = "SIMCLRLoss"
    THEN [n : 0..MaxN, d : [a : Patterns, b : Patterns]]
    ELSE IF fn = "ACLIPLoss"
    THEN [n : 0..MaxN,
          d : [a : Patterns, b : Patterns, t : Patterns, scale : LogitScales]]
    ELSE [n : 0..MaxN, p : Patterns, z : Patterns,
          version : {None} \cup {Some(v) : v \in Versions}]

InitFn ==
    /\ engine \in {"SIMCLRLoss", "ACLIPLoss", "cal_simsiam_loss"}
    /\ world \in (IF engine = "cal_simsiam_loss" THEN {1} ELSE 1..MaxWorld)
    /\ rank \in 0..(world - 1)
    /\ self = (IF engine = "cal_simsiam_loss" THEN None ELSE NewInstance(engine))
    /\ call = NoCall
    /\ inp \in FnInputs(engine)
    /\ sched = None
    /\ workers = None

ApplySimclr ==
    /\ engine = "SIMCLRLoss" /\ call = NoCall
    /\ LET outputs == SimclrOutputs(inp.n, 0, inp.d)
           res == SIMCLRLoss_forward(self, outputs, rank, world,
                                     SimclrPeers(inp.n, 0, inp.d, world), TRUE)
       IN  /\ self' = res.self
           /\ call' = [fn |-> "SIMCLRLoss", outputs |-> outputs, n |-> inp.n,
                       prev |-> None, before |-> self, res |-> res]
    /\ UNCHANGED << rank, world, engine, inp, sched, workers >>

ApplyAclip ==
    /\ engine = "ACLIPLoss" /\ call = NoCall
    /\ LET outputs == AclipOutputs(inp.n, "ok", inp.d)
           res == ACLIPLoss_forward(self, outputs, rank, world,
                                    AclipPeers(inp.n, "ok", inp.d, world), 0)
       IN  /\ self' = res.self
           /\ call' = [fn |-> "ACLIPLoss", outputs |-> outputs, n |-> inp.n,
                       prev |-> None, before |-> self, res |-> res]
    /\ UNCHANGED << rank, world, engine, inp, sched, workers >>

ApplySimsiam ==
    /\ engine = "cal_simsiam_loss" /\ call = NoCall
    /\ LET p == Batch(inp.n, inp.p)
           z == Batch(inp.n, inp.z)
           version == IF inp.version = None THEN DefaultVersion
                      ELSE inp.version[1]
       IN  call' = [fn |-> "cal_simsiam_loss", p |-> p, z |-> z,
                    passed |-> inp.version,
                    res |-> cal_simsiam_loss(p, z, version)]
    /\ UNCHANGED << rank, world, engine, self, inp, sched, workers >>

NextFn == ApplySimclr \/ ApplyAclip \/ ApplySimsiam

SpecFn == InitFn /\ [][NextFn]_vars

\* ------------------------------------------------- lock-step specification
\* The workers of a group, each with its own instance of the same engine,
\* each calling forward on the batch sizes of sched, in order.  A gather is a
\* barrier: a worker leaves its c-th collective once every worker of the
\* group has entered its own c-th collective with as many tensors.  A worker:
\*   pc       "idle" between calls, "running" inside forward, "gather" inside
\*            a collective
\*   k        the number of forward calls it has finished
\*   self     its instance
\*   plan     what each of its calls does (PlanFrom)
\*   pending  the gathers the call in progress has still to issue
\*   entered  the collectives it has entered so far (tensors of each)
\*   log      for each call, the gathers it issued and the call's outcome
Ranks == 0..(MaxWorld - 1)

\* forward on the instance inst of the worker of rank w, for n samples
WorkerForward(cls, inst, w, world_, n) ==
    IF cls = "SIMCLRLoss"
    THEN SIMCLRLoss_forward(inst, SimclrOutputs(n, 0, SpecData), w, world_,
                            SimclrPeers(n, 0, SpecData, world_), TRUE)
    ELSE ACLIPLoss_forward(inst, AclipOutputs(n, "ok", SpecData), w, world_,
                           AclipPeers(n, "ok", SpecData, world_), 0)

\* What the calls k, k+1, ... of worker w do, from the instance inst: for each
\* call the gathers it issues, its outcome and the instance after it.  A call
\* reads and writes only the worker's own instance, so what it does is fixed
\* by the schedule; it is evaluated once, when the run is set up.
RECURSIVE PlanFrom(_, _, _, _, _, _)
PlanFrom(cls, inst, w, world_, sizes, k) ==
    IF k > Len(sizes) THEN << >>
    ELSE LET res == WorkerForward(cls, inst, w, world_, sizes[k])
         IN  << [self |-> res.self, status |-> res.out.status,
                 gathers |-> res.gathers] >>
             \o PlanFrom(cls, res.self, w, world_, sizes, k + 1)

InitSync ==
    /\ engine \in {"SIMCLRLoss", "ACLIPLoss"}
    /\ world \in 1..MaxWorld
    /\ rank = 0
    /\ self = None
    /\ call = NoCall
    /\ inp = None
    /\ sched \in [1..MaxCalls -> 0..MaxN]
    /\ workers = [w \in Ranks |->
                    [pc |-> "idle", k |-> 0, self |-> NewInstance(engine),
                     plan |-> PlanFrom(engine, NewInstance(engine), w, world,
                                       sched, 1),
                     pending |-> << >>, entered |-> << >>, log |-> << >>]]

\* Worker w calls forward
Start(w) ==
    /\ w < world
    /\ workers[w].pc = "idle"
    /\ workers[w].k < MaxCalls
    /\ workers' = [workers EXCEPT ![w] =
           [@ EXCEPT !.pc = "running",
                     !.pending = workers[w].plan[workers[w].k + 1].gathers,
                     !.log = Append(@, [gathers |-> << >>,
                                        status |-> "running"])]]
    /\ UNCHANGED << rank, world, engine, self, call, inp, sched >>

\* Worker w reaches the next gather of its call and enters the collective
Enter(w) ==
    /\ w < world
    /\ workers[w].pc = "running"
    /\ workers[w].pending # << >>
    /\ workers' = [workers EXCEPT ![w] =
           [@ EXCEPT !.pc = "gather",
                     !.entered = Append(@, Head(workers[w].pending)),
                     !.log[Len(workers[w].log)].gathers =
                         Append(@, Head(workers[w].pending))]]
    /\ UNCHANGED << rank, world, engine, self, call, inp, sched >>

\* The collective worker w is in completes: every worker has entered it
Leave(w) ==
    /\ w < world
    /\ workers[w].pc = "gather"
    /\ LET c == Len(workers[w].entered)
       IN  \A v \in 0..(world - 1) :
             /\ Len(workers[v].entered) >= c
             /\ workers[v].entered[c] = workers[w].entered[c]
    /\ workers' = [workers EXCEPT ![w] =
           [@ EXCEPT !.pc = "running", !.pending = Tail(@)]]
    /\ UNCHANGED << rank, world, engine, self, call, inp, sched >>

\* Worker w's forward returns or raises
Finish(w) ==
    /\ w < world
    /\ workers[w].pc = "running"
    /\ workers[w].pending = << >>
    /\ workers' = [workers EXCEPT ![w] =
           [@ EXCEPT !.pc = "idle", !.k = @ + 1,
                     !.self = workers[w].plan[workers[w].k + 1].self,
                     !.log[Len(workers[w].log)].status =
                         workers[w].plan[workers[w].k + 1].status]]
    /\ UNCHANGED << rank, world, engine, self, call, inp, sched >>

WorkerStep(w) == Start(w) \/ Enter(w) \/ Leave(w) \/ Finish(w)

NextSync == \E w \in Ranks : WorkerStep(w)

\* Every worker process keeps running
SpecSync ==
    InitSync /\ [][NextSync]_vars /\ \A w \in Ranks : WF_vars(WorkerStep(w))

\* ------------------------------------------------------------------ claims
\* What the last call did to each engine instance it ran: the instance's cache
\* before and after, the batch size the instance saw, whether the cache step
\* assigned, and the labels and masks the call read (None: not reached).
CacheOf(inst) ==
    [labels |-> inst.labels, last_local_batch_size |-> inst.last_local_batch_size,
     masks |-> IF "masks" \in DOMAIN inst THEN inst.masks ELSE None]

SimclrRun(before, r) ==
    [cls |-> "SIMCLRLoss", n |-> r.did.local_batch_size,
     before |-> CacheOf(before), after |-> CacheOf(r.self), wrote |-> r.wrote,
     labels |-> r.labels, masks |-> r.masks, status |-> r.out.status]

AclipRun(before, r) ==
    [cls |-> "ACLIPLoss", n |-> r.did.local_batch_size,
     before |-> CacheOf(before), after |-> CacheOf(r.self), wrote |-> r.wrote,
     labels |-> r.labels, masks |-> None, status |-> r.out.status]

Runs ==
    IF call.fn = "SIMCLRLoss" THEN {SimclrRun(call.before, call.res)}
    ELSE IF call.fn = "ACLIPLoss"
    THEN {SimclrRun(call.before.simclr_loss, call.res.inner),
          AclipRun(call.before, call.res)}
    ELSE {}

\* The pairs << local tensor, gathered tensor >> of the last call's gathers
GatherPairs ==
    IF call.fn = "SIMCLRLoss" /\ call.res.gathered # None
    THEN {<< call.res.did.q_a, call.res.gathered[1][1] >>,
          << call.res.did.q_b, call.res.gathered[1][2] >>}
    ELSE IF call.fn = "ACLIPLoss"
    THEN (IF call.res.inner.gathered # None
          THEN {<< call.res.inner.did.q_a, call.res.inner.gathered[1][1] >>,
                << call.res.inner.did.q_b, call.res.inner.gathered[1][2] >>}
          ELSE {})
         \cup
         (IF call.res.gathered # None
          THEN {<< call.res.did.image_embed_1, call.res.gathered[1][1] >>,
                << call.res.did.image_embed_2, call.res.gathered[1][2] >>,
                << call.res.did.text_embed, call.res.gathered[1][3] >>}
          ELSE {})
    ELSE {}

\* C1: with every batch size >= 1 (SpecPos), the labels a forward call of
\* SIMCLRLoss or ACLIPLoss reads on the worker of rank r are
\* labels[i] = N*r + i, i in 0..N-1, each in 0..N*W-1, and row labels[i] of
\* every gathered tensor of N-row local tensors is the worker's own local row
\* i.  With W = 1, r = 0 the labels are 0, 1, ..., N-1.
C1_Labels ==
    /\ \A run \in Runs :
         run.labels # None =>
           /\ Len(run.labels[1]) = run.n
           /\ \A i \in 1..run.n :
                /\ run.labels[1][i] = run.n * rank + (i - 1)
                /\ run.labels[1][i] \in 0..(run.n * world - 1)
                /\ (world = 1 /\ rank = 0) => run.labels[1][i] = i - 1
    /\ \A pr \in GatherPairs :
         Len(pr[1]) = call.n =>
           /\ Len(pr[2]) = call.n * world
           /\ \A i \in 1..call.n :
                pr[2][(call.n * rank + (i - 1)) + 1] = pr[1][i]

C1_Witness ==
    /\ call.fn = "ACLIPLoss" /\ call.res.out.status = "return"
    /\ world = 2 /\ rank = 1 /\ call.n = 2
    /\ call.res.labels = Some(<< 2, 3 >>)
    /\ call.res.gathered[1][3][1] # call.res.gathered[1][3][3]

\* C2: in every forward call, the labels (and for SIMCLRLoss the mask) the
\* call reads have as many entries (rows) as the call's local batch size.
C2_Original ==
    \A run \in Runs :
      /\ run.labels # None => Len(run.labels[1]) = run.n
      /\ run.masks # None => Rows(run.masks[1]) = run.n

\* C10: in every reachable state the cache of every engine instance is
\* consistent: when last_local_batch_size = N is not None, labels has length N
\* and (SIMCLRLoss) masks has N rows.
CacheConsistent(c, hasMasks) ==
    c.last_local_batch_size # None =>
      /\ c.labels # None
      /\ Len(c.labels[1]) = c.last_local_batch_size[1]
      /\ hasMasks => (c.masks # None
                      /\ Rows(c.masks[1]) = c.last_local_batch_size[1])

C10_Original ==
    IF engine = "SIMCLRLoss" THEN CacheConsistent(self, TRUE)
    ELSE CacheConsistent(self, FALSE) /\ CacheConsistent(self.simclr_loss, TRUE)

\* C4: a returned ACLIPLoss.forward yields a record whose keys are exactly the
\* six names of get_metric_names(), and whose simclr_loss is the ssl_loss the
\* inner SIMCLRLoss call of the same forward returned.
C4_Keys ==
    (call.fn = "ACLIPLoss" /\ call.res.out.status = "return") =>
      /\ DOMAIN call.res.out.ret[1]
           = {get_metric_names[i] : i \in 1..Len(get_metric_names)}
      /\ DOMAIN call.res.out.ret[1]
           = {"loss", "simclr_loss", "im_byol_loss", "contra_loss_1",
              "contra_loss_2", "clip_acc"}
      /\ Len(get_metric_names) = 6
      /\ call.res.inner.out.status = "return"
      /\ call.res.out.ret[1].simclr_loss = call.res.inner.out.ret[1].ssl_loss

C4_Witness ==
    /\ call.fn = "ACLIPLoss" /\ call.res.out.status = "return" /\ call.n = 2
    /\ call.res.out.ret[1].simclr_loss.op = "div2"

\* C8 as stated: a call whose batch size equals last_local_batch_size leaves
\* the instance's cache unchanged, and the cache is written only by the first
\* call on the instance and by calls whose batch size differs from the
\* previous call's.
C8_Original ==
    \A run \in Runs :
      /\ Some(run.n) = run.before.last_local_batch_size =>
           (run.after = run.before /\ ~run.wrote)
      /\ run.wrote =>
           \/ call.prev = None
           \/ run.before.last_local_batch_size = None
           \/ run.n # call.prev[1]

\* C8 as amended: a call whose batch size equals last_local_batch_size leaves
\* the instance's cache unchanged, and the cache is written only by calls
\* whose batch size differs from last_local_batch_size (None until a call has
\* completed the cache step).
C8_Reuse ==
    \A run \in Runs :
      /\ Some(run.n) = run.before.last_local_batch_size =>
           (run.after = run.before /\ ~run.wrote)
      /\ run.wrote => Some(run.n) # run.before.last_local_batch_size

C8_Witness ==
    /\ call.fn = "ACLIPLoss" /\ call.res.out.status = "return"
    /\ \A run \in Runs :
         /\ Some(run.n) = run.before.last_local_batch_size
         /\ run.after = run.before
         /\ run.n = 2

\* The SIMCLRLoss.forward results of the last call (the inner one for ACLIPLoss)
SimclrResults ==
    IF call.fn = "SIMCLRLoss" THEN {call.res}
    ELSE IF call.fn = "ACLIPLoss" THEN {call.res.inner}
    ELSE {}

\* q . k^T / tau, entry by entry
RawLogits(q, k) ==
    [i \in 1..Len(q) |-> [j \in 1..Len(k) |-> 10 * Dot(q[i], k[j])]]

\* C9: the mask a SIMCLRLoss.forward call of batch size N reads has shape
\* (N, N*W), with 1e9 at column N*r + i of row i and 0 elsewhere; in a call
\* that returns, that column is labels[i], the mask is subtracted from aa and
\* bb and never from ab or ba, the only reduced entry of row i of
\* concat(ab, aa) is column N*W + labels[i], and the target entry at column
\* labels[i] is not reduced.
C9_Mask ==
    \A r \in SimclrResults :
      LET n == r.did.local_batch_size
          m == r.masks[1]
          lab == r.labels[1]
          k_a == r.gathered[1][1]
          k_b == r.gathered[1][2]
          loc == r.out.locals[1]
          cat == CatCols(loc.logits_ab, loc.logits_aa)
          raw == CatCols(RawLogits(r.did.q_a, k_b), RawLogits(r.did.q_a, k_a))
      IN  /\ r.masks # None =>
                /\ Len(m) = n
                /\ \A i \in 1..n :
                     /\ Len(m[i]) = n * world
                     /\ \A j \in 1..(n * world) :
                          m[i][j] = IF j - 1 = n * rank + (i - 1)
                                    THEN 1000000000 ELSE 0
          /\ r.out.status = "return" =>
                /\ Len(lab) = n
                /\ \A i \in 1..n : lab[i] = n * rank + (i - 1)
                /\ loc.logits_ab = RawLogits(r.did.q_a, k_b)
                /\ loc.logits_ba = RawLogits(r.did.q_b, k_a)
                /\ \A i \in 1..n : \A j \in 1..(n * world) :
                     /\ loc.logits_aa[i][j]
                          = 10 * Dot(r.did.q_a[i], k_a[j]) - m[i][j]
                     /\ loc.logits_bb[i][j]
                          = 10 * Dot(r.did.q_b[i], k_b[j]) - m[i][j]
                /\ \A i \in 1..n : \A c \in 1..(2 * n * world) :
                     (cat[i][c] # raw[i][c]) <=> (c - 1 = n * world + lab[i])
                /\ \A i \in 1..n : cat[i][lab[i] + 1] = raw[i][lab[i] + 1]

C9_Witness ==
    /\ call.fn = "SIMCLRLoss" /\ call.res.out.status = "return"
    /\ world = 2 /\ rank = 1 /\ call.n = 2
    /\ call.res.masks[1] = << << 0, 0, 1000000000, 0 >>, << 0, 0, 0, 1000000000 >> >>

\* The number of rows i of view whose first-maximal dot product with the rows
\* of all is at (0-based) column labels[i]
CorrectRows(view, all, labels) ==
    Cardinality({i \in 1..Len(view) :
        ArgmaxRow([j \in 1..Len(all) |-> Dot(view[i], all[j])]) = labels[i]})

\* The view-1 rows some other batch would give the last (function) call
OtherView1 == {Batch(call.n, pat) : pat \in {<< 0, 1 >>, << 1, 1 >>, << 2, 0 >>}}

\* C5: the clip_acc a returned ACLIPLoss.forward reports is 100 * (the number
\* of rows i whose image view-2 row has its maximal similarity with the
\* gathered text rows at labels[i]) / N; it is in 0..100; and it is the same
\* whatever the view-1 rows image_embed[0:N] are.
C5_ClipAcc ==
    (call.fn = "ACLIPLoss" /\ call.res.out.status = "return") =>
      LET n == Len(call.outputs.text_embed)
          view2 == [i \in 1..n |-> NormalizeRow(call.outputs.image_embed[n + i])]
          text_all == call.res.gathered[1][3]
          labels == [i \in 1..n |-> n * rank + (i - 1)]
          acc == call.res.out.ret[1].clip_acc
      IN  /\ acc.den = n
          /\ acc.num = 100 * CorrectRows(view2, text_all, labels)
          /\ 0 <= acc.num /\ acc.num <= 100 * acc.den
          /\ \A v1 \in OtherView1 :
               LET outputs2 == [call.outputs EXCEPT
                                  !.image_embed = v1 \o SliceFrom(@, n)]
                   res2 == ACLIPLoss_forward(call.before, outputs2, rank, world,
                               AclipPeers(n, "ok", inp.d, world), 0)
               IN  /\ res2.out.status = "return"
                   /\ res2.out.ret[1].clip_acc = acc

\* A call whose view-1 predictions are all wrong and whose view-2 predictions
\* are all right
C5_Witness ==
    /\ call.fn = "ACLIPLoss" /\ call.res.out.status = "return"
    /\ call.n = 2 /\ world = 2 /\ rank = 1
    /\ call.res.out.ret[1].clip_acc = [num |-> 200, den |-> 2]
    /\ EqSum(Argmax(call.res.out.locals[1].logits_per_image_83),
             call.res.labels[1]) = 0

\* C6: world_size = 1, N >= 1.  After masking, the diagonal entries of aa and
\* bb are their unmasked values minus 1e9, strictly below every entry of ab
\* and ba and every off-diagonal entry of aa and bb, and the argmax of row i of
\* concat(ab, aa) is never the masked column N + i.
C6_SelfMasked ==
    (call.fn = "SIMCLRLoss" /\ call.res.out.status = "return" /\ world = 1) =>
      LET n == Len(call.outputs.aug1_embed)
          qa == Normalize(call.outputs.aug1_embed)
          qb == Normalize(call.outputs.aug2_embed)
          loc == call.res.out.locals[1]
          Others(i) ==
              {loc.logits_ab[r][c] : r \in 1..n, c \in 1..n}
              \cup {loc.logits_ba[r][c] : r \in 1..n, c \in 1..n}
              \cup {loc.logits_aa[x[1]][x[2]] :
                       x \in {y \in (1..n) \X (1..n) : y[1] # y[2]}}
              \cup {loc.logits_bb[x[1]][x[2]] :
                       x \in {y \in (1..n) \X (1..n) : y[1] # y[2]}}
      IN  /\ n >= 1
          /\ \A i \in 1..n :
               /\ loc.logits_aa[i][i] = 10 * Dot(qa[i], qa[i]) - 1000000000
               /\ loc.logits_bb[i][i] = 10 * Dot(qb[i], qb[i]) - 1000000000
               /\ \A v \in Others(i) :
                    /\ v >= -10 /\ v <= 10
                    /\ loc.logits_aa[i][i] < v
                    /\ loc.logits_bb[i][i] < v
               /\ loc.pred[i] # n + (i - 1)
               /\ ArgmaxRow(loc.logits_ab[i] \o loc.logits_aa[i]) # n + (i - 1)

\* A call whose unmasked self-similarity is the strict maximum of its row
C6_Witness ==
    /\ call.fn = "SIMCLRLoss" /\ call.res.out.status = "return" /\ world = 1
    /\ call.n = 2
    /\ \A j \in 1..2 : call.res.out.locals[1].logits_ab[1][j] < 10
    /\ call.res.out.locals[1].aa[1][1] = 10
    /\ call.res.out.locals[1].logits_aa[1][1] = -999999990

\* C7: cal_simsiam_loss returns a value for version "original" and for
\* "simplified", which is the default, and raises, returning no value, for
\* every other version.
C7_Version ==
    call.fn = "cal_simsiam_loss" =>
      LET version == IF call.passed = None THEN "simplified" ELSE call.passed[1]
      IN  /\ version \in {"original", "simplified"} =>
               (call.res.status = "return" /\ call.res.value # None)
          /\ version \notin {"original", "simplified"} =>
               (call.res.status = "raise" /\ call.res.value = None)

C7_Witness ==
    /\ call.fn = "cal_simsiam_loss"
    /\ call.passed = Some("bogus")
    /\ call.res.status = "raise"

\* The gathers a returned forward call of the engine issues
ExpectedGathers == IF engine = "SIMCLRLoss" THEN << 2 >> ELSE << 2, 3 >>

IsPrefix(a, b) == Len(a) <= Len(b) /\ a = SubSeq(b, 1, Len(a))

SyncSafe ==
    \A w \in 0..(world - 1) :
      /\ \A c \in 1..Len(workers[w].log) :
           /\ IsPrefix(workers[w].log[c].gathers, ExpectedGathers)
           /\ workers[w].log[c].status = "return" =>
                workers[w].log[c].gathers = ExpectedGathers
           /\ \A v \in 0..(world - 1) :
                (/\ c <= Len(workers[v].log)
                 /\ workers[v].log[c].status # "running"
                 /\ workers[w].log[c].status # "running")
                => workers[v].log[c] = workers[w].log[c]
      /\ \A v \in 0..(world - 1) :
           \A c \in 1..Len(workers[w].entered) :
             c <= Len(workers[v].entered) =>
               workers[v].entered[c] = workers[w].entered[c]

\* C3: when every worker makes the same calls, every worker issues the same
\* gathers in each call, whatever its rank and whether its cache hit or
\* missed: a returned SIMCLRLoss.forward one gather of 2 tensors, a returned
\* ACLIPLoss.forward one of 2 then one of 3; and every forward call a worker
\* starts completes.
C3_LockStep ==
    /\ []SyncSafe
    /\ \A w \in Ranks :
         (workers[w].pc # "idle") ~> (workers[w].pc = "idle")

\* Two workers have each returned from a cache-miss and then a cache-hit call
C3_Witness ==
    /\ engine = "ACLIPLoss" /\ world = 2
    /\ sched[1] = 2 /\ sched[2] = 2
    /\ \A w \in 0..1 :
         /\ workers[w].k >= 2
         /\ \A c \in 1..2 :
              workers[w].log[c] = [gathers |-> << 2, 3 >>, status |-> "return"]
====
